---- MODULE Spec2Model ----
(***************************************************************************)
(* Ticket lifecycle and assignment engine of the support-ticket platform:  *)
(* the assignment ledger, the escalation audit rows, the ticket status,    *)
(* the Redis SLA timers, the expiry listener (app/workers/sla_monitor.py), *)
(* the retry worker (app/workers/assignment_retry_worker.py) and the       *)
(* request handlers that move a ticket.                                    *)
(*                                                                         *)
(* Every database commit and every Redis call of a handler is one step, so *)
(* that the three call sites (request handler, expiry listener, retry      *)
(* worker) interleave between their commits as the processes do.           *)
(***************************************************************************)
EXTENDS Integers, Sequences, FiniteSets, Bags, TLC

\* ------------------------------------------------------------------ bounds
MaxRows == 2
MaxExpiries == 2

\* ------------------------------------------------- program constants, enums
SLA_DEFAULT_MINUTES == 3

TicketIds == {1, 2}
\* the tickets that exist when the processes are interleaved
Contended == {1}
NoUser == "none"
NoCategory == 0

TicketStatus == {"queued", "assigned", "in-progress", "processed", "done", "incomplete"}
\* a list of active statuses that also holds 'processed'
ACTIVE_TICKET_STATUSES_processed == {"assigned", "in-progress", "queued", "processed"}
ACTIVE_TICKET_STATUSES == {"assigned", "in-progress", "queued"}
\* an escalatable list that also holds 'processed'
ESCALATABLE_STATUSES_processed == {"assigned", "in-progress", "processed"}
ESCALATABLE_STATUSES == {"assigned", "in-progress"}
\* the statuses after which update_tenant_ticket stops the timer
StopTimerStatuses_done == {"done", "incomplete"}
StopTimerStatuses == {"done", "processed", "incomplete"}

\* The members of the AssignmentType enum, by name.
AssignmentType == {"ASSIGNED", "ESCALATED", "REASSIGNED", "COMPLETED"}

\* a lookup in an enum that also defines AUTO_ESCALATED
EnumValue_escalated(name) ==
    CASE name = "ASSIGNED" -> "assigned"
      [] name = "ESCALATED" -> "escalated"
      [] name = "REASSIGNED" -> "reassigned"
      [] name = "COMPLETED" -> "completed"
      [] name = "AUTO_ESCALATED" -> "auto_escalated"
      [] OTHER -> "AttributeError"

\* AssignmentType.<name>.value: the value of a member, or the AttributeError
\* Python raises for a name the enum does not define.
EnumValue(name) ==
    IF name \notin AssignmentType THEN "AttributeError"
    ELSE CASE name = "ASSIGNED" -> "assigned"
           [] name = "ESCALATED" -> "escalated"
           [] name = "REASSIGNED" -> "reassigned"
           [] name = "COMPLETED" -> "completed"
           [] name = "AUTO_ASSIGNED" -> "auto_assigned"
           [] name = "AUTO_ESCALATED" -> "auto_escalated"
           [] OTHER -> "AttributeError"

\* ------------------------------------------------------- the user directory
\* The user records the engine reads (it never writes them).  D's manager_id
\* names a record that does not exist; X belongs to another tenant; Old is a
\* deactivated admin; D does not accept tickets.
UserIds == {"A", "B", "D", "M", "Ad", "Old", "X"}

User ==
    [u \in UserIds |->
        CASE u = "A" -> [tenant_id |-> 1, role |-> "user", manager_id |-> "M",
                         category_id |-> 1, capacity |-> 1,
                         is_accepting_tickets |-> TRUE, is_active |-> TRUE]
          [] u = "B" -> [tenant_id |-> 1, role |-> "user", manager_id |-> NoUser,
                         category_id |-> NoCategory, capacity |-> 2,
                         is_accepting_tickets |-> TRUE, is_active |-> TRUE]
          [] u = "D" -> [tenant_id |-> 1, role |-> "user", manager_id |-> "Gone",
                         category_id |-> NoCategory, capacity |-> 2,
                         is_accepting_tickets |-> FALSE, is_active |-> TRUE]
          [] u = "M" -> [tenant_id |-> 1, role |-> "manager", manager_id |-> NoUser,
                         category_id |-> 1, capacity |-> 2,
                         is_accepting_tickets |-> TRUE, is_active |-> TRUE]
          [] u = "Ad" -> [tenant_id |-> 1, role |-> "admin", manager_id |-> NoUser,
                         category_id |-> NoCategory, capacity |-> 2,
                         is_accepting_tickets |-> TRUE, is_active |-> TRUE]
          [] u = "Old" -> [tenant_id |-> 1, role |-> "admin", manager_id |-> NoUser,
                         category_id |-> NoCategory, capacity |-> 2,
                         is_accepting_tickets |-> TRUE, is_active |-> FALSE]
          [] OTHER -> [tenant_id |-> 2, role |-> "user", manager_id |-> NoUser,
                         category_id |-> NoCategory, capacity |-> 2,
                         is_accepting_tickets |-> TRUE, is_active |-> TRUE]]

\* a lookup that finds a record for every id
UserExists_always(u) == TRUE

\* db.query(User).filter(User.id == id).first() is not None
UserExists(u) == u \in UserIds

\* The admin whose requests the model issues, and the tenant of every ticket.
Admin == "Ad"
TicketTenant(t) == 1
TicketCategory(t) == IF t = 1 THEN NoCategory ELSE 1

\* The value of the 'sla' configuration row of each tenant when the system
\* starts (a text column).
Configuration == [tenant \in {1, 2} |-> IF tenant = 1 THEN "2" ELSE "soon"]

\* no 'sla' row for the tenant
NoConfiguration == "<no row>"

\* the values an admin may store in the row ("" also stands for NULL)
ConfigValues == {"2", "5", " 5 ", "0", "-1", "soon", "2.5", ""}

\* int(config.value): the integer, or the ValueError (ok = FALSE)
IntOf(s) ==
    CASE s = "2" -> [ok |-> TRUE, value |-> 2]
      [] s = "5" -> [ok |-> TRUE, value |-> 5]
      [] s = " 5 " -> [ok |-> TRUE, value |-> 5]
      [] s = "0" -> [ok |-> TRUE, value |-> 0]
      [] s = "-1" -> [ok |-> TRUE, value |-> -1]
      [] OTHER -> [ok |-> FALSE, value |-> 0]

\* a lookup that ignores the tenant's row
sla_minutes_default(value) == SLA_DEFAULT_MINUTES

\* get_tenant_sla_minutes for the value of the tenant's row
sla_minutes(value) ==
    IF value # NoConfiguration /\ value # "" /\ IntOf(value).ok
    THEN IntOf(value).value
    ELSE SLA_DEFAULT_MINUTES

\* ------------------------------------------------------------------- state
VARIABLES
    tstatus,        \* ticket id -> "absent" (not created), a status, "deleted"
    ledger,         \* set of ticket_assignments rows
    escalations,    \* set of ticket_escalations rows
    timers,         \* ticket id -> the Redis key ticket:{id}:sla, or NoTimer
    events,         \* expired-key messages the listener has not handled yet
    notifications,  \* bag of notification rows
    submitted,      \* the tickets that have ticket_submissions rows
    proc,           \* each process's position in the handler it is running
    queue,          \* the retry worker's list of queued tickets of this cycle
    nextId,         \* primary key of the next ledger row
    nExpired,       \* number of timers that have expired so far
    redisFailed,    \* a timer-store call has failed (was logged and skipped)
    configuration   \* tenant -> the value of its 'sla' configuration row

vars == <<tstatus, ledger, escalations, timers, events, notifications,
          submitted, proc, queue, nextId, nExpired, redisFailed, configuration>>

\* get_tenant_sla_minutes: the tenant's row as the database has it now
get_tenant_sla_minutes(tenant) == sla_minutes(configuration[tenant])

Procs == {"api", "retry", "sla"}

NoTimer == [user |-> NoUser, ttl |-> 0]

\* subs: the types of the ticket_submissions rows the request has added;
\* minutes: the SLA minutes of a direct call of start_sla_timer
Idle == [pc |-> "idle", op |-> "none", t |-> 0, u |-> NoUser, by |-> NoUser,
         from |-> NoUser, row |-> 0, ret |-> "none", subs |-> <<>>, minutes |-> 0]

TicketFound(t) == tstatus[t] \in TicketStatus

\* rows of a ticket with is_current = true
CurrentRows(t) == {r \in ledger : r.ticket_id = t /\ r.is_current}

\* the set of users who hold a current row of the ticket
CurrentOwners(t) == {r.assigned_to_user_id : r \in CurrentRows(t)}

NewRow(id, t, to, by, type) ==
    [id |-> id, ticket_id |-> t, assigned_to_user_id |-> to,
     assigned_by_user_id |-> by, assignment_type |-> type,
     is_current |-> TRUE, completed |-> FALSE]

Closed(r) == [r EXCEPT !.is_current = FALSE, !.completed = TRUE]

Notification(user, type, t, related) ==
    [user_id |-> user, notification_type |-> type, ticket_id |-> t,
     related_user_id |-> related]

\* a create_ticket_submission that adds no row
create_ticket_submission_none(me, type) == me

\* create_ticket_submission: the request has added a row of the type
create_ticket_submission(me, type) == [me EXCEPT !.subs = Append(me.subs, type)]

\* ------------------------------------------------------------ the timer store
\* a start_sla_timer that keeps the time left on a key it overwrites
start_sla_timer_keep_ttl(t, u, minutes, ok) ==
    IF ok
    THEN [timers EXCEPT ![t] = [user |-> u,
                                ttl |-> IF timers[t] = NoTimer THEN minutes * 60
                                        ELSE timers[t].ttl]]
    ELSE timers

\* a start_sla_timer that takes the minutes for seconds
start_sla_timer_seconds(t, u, minutes, ok) ==
    IF ok THEN [timers EXCEPT ![t] = [user |-> u, ttl |-> minutes]]
    ELSE timers

\* a start_sla_timer that writes the key of every ticket
start_sla_timer_all(t, u, minutes, ok) ==
    IF ok THEN [x \in DOMAIN timers |-> [user |-> u, ttl |-> minutes * 60]]
    ELSE timers

\* a start_sla_timer that renews the TTL of an existing key and keeps its user
start_sla_timer_keep_user(t, u, minutes, ok) ==
    IF ok
    THEN [timers EXCEPT ![t] = [user |-> IF timers[t] = NoTimer THEN u
                                         ELSE timers[t].user,
                                ttl |-> minutes * 60]]
    ELSE timers

\* a start_sla_timer that never writes the key
start_sla_timer_lost(t, u, minutes, ok) == timers

\* start_sla_timer: SETEX of the ticket's key; a failure is logged, not raised.
start_sla_timer(t, u, minutes, ok) ==
    IF ok THEN [timers EXCEPT ![t] = [user |-> u, ttl |-> minutes * 60]]
    ELSE timers

\* a stop_sla_timer that leaves the key
stop_sla_timer_keep(t, ok) == timers

\* stop_sla_timer: DEL of the ticket's key.
stop_sla_timer(t, ok) ==
    IF ok THEN [timers EXCEPT ![t] = NoTimer] ELSE timers

\* a stop_sla_timer that reports every DEL that went through as a deletion
stop_sla_timer_result_sent(t, ok) == ok

\* the value stop_sla_timer returns: bool(deleted), False on a failure
stop_sla_timer_result(t, ok) == ok /\ timers[t] # NoTimer

\* --------------------------------------------------------- assignment engine
\* an active_count that finds no row
ActiveLoad_zero(u) == 0

\* active_count of a user: current rows whose ticket has an active status
ActiveLoad(u) ==
    Cardinality({r \in ledger : /\ r.assigned_to_user_id = u
                                /\ r.is_current
                                /\ tstatus[r.ticket_id] \in ACTIVE_TICKET_STATUSES})

\* the candidate query without the is_accepting_tickets filter
Candidates_not_accepting(tenant, category) ==
    {u \in UserIds :
        /\ User[u].tenant_id = tenant
        /\ User[u].role = "user"
        /\ User[u].is_active
        /\ (category # NoCategory => User[u].category_id = category)
        /\ ActiveLoad(u) < User[u].capacity}

\* _get_candidate_users_with_load: the eligible users under capacity
Candidates(tenant, category) ==
    {u \in UserIds :
        /\ User[u].tenant_id = tenant
        /\ User[u].role = "user"
        /\ User[u].is_accepting_tickets
        /\ User[u].is_active
        /\ (category # NoCategory => User[u].category_id = category)
        /\ ActiveLoad(u) < User[u].capacity}

\* candidates[0] of the list without the ORDER BY: any candidate
BestCandidates_unordered(tenant, category) == Candidates(tenant, category)

\* candidates[0] of the list ordered by active_count ascending: any candidate
\* of minimal load (the order among equal loads is the database's)
BestCandidates(tenant, category) ==
    {u \in Candidates(tenant, category) :
        \A v \in Candidates(tenant, category) : ActiveLoad(u) <= ActiveLoad(v)}

Init ==
    /\ tstatus = [t \in TicketIds |-> "absent"]
    /\ ledger = {}
    /\ escalations = {}
    /\ timers = [t \in TicketIds |-> NoTimer]
    /\ events = <<>>
    /\ notifications = EmptyBag
    /\ submitted = {}
    /\ proc = [p \in Procs |-> Idle]
    /\ queue = <<>>
    /\ nextId = 1
    /\ nExpired = 0
    /\ redisFailed = FALSE
    /\ configuration = Configuration

\* A handler has finished: its result is in proc[p].ret until Return(p).
Done(p, r) == [proc EXCEPT ![p].pc = "done", ![p].ret = r]

Start(op, t, u, by) ==
    [Idle EXCEPT !.op = op, !.t = t, !.u = u, !.by = by]

\* the largest escalation_level among the ticket's escalation rows, 0 if none
LastLevel(t) ==
    LET L == {e.escalation_level : e \in {x \in escalations : x.ticket_id = t}}
    IN IF L = {} THEN 0 ELSE CHOOSE m \in L : \A n \in L : n <= m

\* new_level of handle_sla_expiry
NewLevel(t) ==
    IF {x \in escalations : x.ticket_id = t} # {} THEN LastLevel(t) + 1 ELSE 1

\* a set of ticket ids as the list a query returns (by id)
RECURSIVE ListOf(_)
ListOf(S) ==
    IF S = {} THEN <<>>
    ELSE LET m == CHOOSE x \in S : \A y \in S : x <= y
         IN <<m>> \o ListOf(S \ {m})

\* ---------------------------------------------------------------- requests
\* crud.ticket.create_ticket, from the public endpoint
CreateTicket(t) ==
    /\ tstatus[t] = "absent"
    /\ tstatus' = [tstatus EXCEPT ![t] = "queued"]
    /\ UNCHANGED <<configuration, submitted, ledger, escalations, timers, events, notifications, proc,
                   queue, nextId, nExpired, redisFailed>>

\* get_ticket_by_id_in_tenant for the admin's tenant
TicketInTenant(t, tenant) == TicketFound(t) /\ TicketTenant(t) = tenant

\* an employee lookup that also asks for room under the capacity
EmployeeOfTenant_with_room(u, tenant) ==
    /\ UserExists(u)
    /\ User[u].tenant_id = tenant
    /\ User[u].role = "user"
    /\ ActiveLoad(u) < User[u].capacity

\* assign_ticket: the user exists, belongs to the tenant and is an employee
EmployeeOfTenant(u, tenant) ==
    /\ UserExists(u)
    /\ User[u].tenant_id = tenant
    /\ User[u].role = "user"

\* assign_ticket: the ticket and employee lookups before reassign_ticket
AssignBegin(t, u) ==
    /\ proc["api"].pc = "idle"
    /\ nextId <= MaxRows
    /\ IF /\ TicketInTenant(t, User[Admin].tenant_id)
          /\ EmployeeOfTenant(u, User[Admin].tenant_id)
       THEN proc' = [proc EXCEPT !["api"] =
                        [Start("assign", t, u, Admin) EXCEPT !.pc = "close"]]
       ELSE proc' = [proc EXCEPT !["api"] =
                        [Start("assign", t, u, Admin) EXCEPT !.pc = "done", !.ret = "404"]]
    /\ UNCHANGED <<configuration, submitted, tstatus, ledger, escalations, timers, events, notifications,
                   queue, nextId, nExpired, redisFailed>>

\* close_current_assignment that leaves is_current set
close_current_assignment_keep(L, r) == L

\* close_current_assignment on the row get_current_assignment returned
close_current_assignment(L, r) == (L \ {r}) \cup {Closed(r)}

\* reassign_ticket, first commit: close the current row, if there is one
AssignClose ==
    /\ proc["api"].pc = "close"
    /\ IF CurrentRows(proc["api"].t) = {}
       THEN ledger' = ledger
       ELSE \E r \in CurrentRows(proc["api"].t) :
                ledger' = close_current_assignment(ledger, r)
    /\ proc' = [proc EXCEPT !["api"].pc = "create"]
    /\ UNCHANGED <<configuration, submitted, tstatus, escalations, timers, events, notifications, queue,
                   nextId, nExpired, redisFailed>>

\* reassign_ticket, second commit: create_ticket_assignment
AssignCreate ==
    /\ proc["api"].pc = "create"
    /\ LET me == proc["api"] IN
       IF TicketFound(me.t)
       THEN /\ ledger' = ledger \cup
                    {NewRow(nextId, me.t, me.u, me.by, "assigned")}
            /\ tstatus' = [tstatus EXCEPT ![me.t] = "assigned"]
            /\ nextId' = nextId + 1
            /\ proc' = [proc EXCEPT !["api"].pc = "notify"]
       ELSE \* the insert violates the foreign key on tickets.id
            /\ proc' = Done("api", "error")
            /\ UNCHANGED <<ledger, tstatus, nextId>>
    /\ UNCHANGED <<configuration, submitted, escalations, timers, events, notifications, queue,
                   nExpired, redisFailed>>

\* the notifications a handler sends after its commit
NotificationsOf(me) ==
    IF me.op = "escalate"
    THEN SetToBag({Notification(me.u, "ticket_assigned", me.t, me.from)})
         (+) SetToBag({Notification(me.from, "ticket_assigned", me.t, me.u)})
    ELSE SetToBag({Notification(me.u, "ticket_assigned", me.t, me.by)})

\* notification_crud.create_notification after the ledger commit
Notify(p) ==
    /\ proc[p].pc = "notify"
    /\ IF TicketFound(proc[p].t)
       THEN /\ notifications' = notifications (+) NotificationsOf(proc[p])
            /\ proc' = [proc EXCEPT ![p].pc = "timer"]
       ELSE \* ticket.title of a deleted row: the handler raises
            /\ proc' = Done(p, "error")
            /\ UNCHANGED notifications
    /\ UNCHANGED <<configuration, submitted, tstatus, ledger, escalations, timers, events, queue,
                   nextId, nExpired, redisFailed>>

\* start_sla_timer for the new owner, with the tenant's SLA minutes
TimerStart(p) ==
    /\ proc[p].pc = "timer"
    /\ \E ok \in BOOLEAN :
        LET me == proc[p]
            live == ok /\ (me.op = "escalate" => TicketFound(me.t))
        IN /\ timers' = start_sla_timer(me.t, me.u,
                            get_tenant_sla_minutes(TicketTenant(me.t)), live)
           /\ redisFailed' = (redisFailed \/ ~live)
    /\ proc' = Done(p, IF proc[p].op = "assign" THEN "ok" ELSE "assigned")
    /\ UNCHANGED <<configuration, submitted, tstatus, ledger, escalations, events, notifications, queue,
                   nextId, nExpired>>

\* stop_sla_timer after a status commit
StopTimer(p) ==
    /\ proc[p].pc = "stop"
    /\ \E ok \in BOOLEAN :
        /\ timers' = stop_sla_timer(proc[p].t, ok)
        /\ redisFailed' = (redisFailed \/ ~ok)
    /\ proc' = Done(p, "ok")
    /\ UNCHANGED <<configuration, submitted, tstatus, ledger, escalations, events, notifications, queue,
                   nextId, nExpired>>

\* a return after which the retry worker gives up the rest of its list
Return_stop(p) ==
    /\ proc[p].pc = "done"
    /\ proc' = [proc EXCEPT ![p] =
                    IF p = "retry" /\ queue # <<>> /\ proc[p].ret # "raised"
                    THEN [Idle EXCEPT !.pc = "loop"] ELSE Idle]
    /\ UNCHANGED <<configuration, submitted, tstatus, ledger, escalations, timers, events, notifications,
                   queue, nextId, nExpired, redisFailed>>

\* the handler returns; the retry worker goes on with its list
Return(p) ==
    /\ proc[p].pc = "done"
    /\ proc' = [proc EXCEPT ![p] =
                    IF p = "retry" /\ queue # <<>>
                    THEN [Idle EXCEPT !.pc = "loop"] ELSE Idle]
    /\ UNCHANGED <<configuration, submitted, tstatus, ledger, escalations, timers, events, notifications,
                   queue, nextId, nExpired, redisFailed>>

\* ------------------------------------------------------------- auto_assign
\* auto_assign_ticket without the check of the ticket's status
auto_assign_read_any_status(p, t, by) ==
    LET me == Start("auto_assign", t, NoUser, by) IN
    IF ~TicketInTenant(t, TicketTenant(t))
    THEN proc' = [proc EXCEPT ![p] = [me EXCEPT !.pc = "done", !.ret = "none"]]
    ELSE IF Candidates(TicketTenant(t), TicketCategory(t)) = {}
    THEN proc' = [proc EXCEPT ![p] = [me EXCEPT !.pc = "done", !.ret = "none"]]
    ELSE \E u \in BestCandidates(TicketTenant(t), TicketCategory(t)) :
            proc' = [proc EXCEPT ![p] = [me EXCEPT !.pc = "commit", !.u = u]]

\* auto_assign_ticket up to the choice of best_user (its queries)
auto_assign_read(p, t, by) ==
    LET me == Start("auto_assign", t, NoUser, by) IN
    IF ~TicketInTenant(t, TicketTenant(t))
    THEN proc' = [proc EXCEPT ![p] = [me EXCEPT !.pc = "done", !.ret = "none"]]
    ELSE IF tstatus[t] # "queued"
    THEN proc' = [proc EXCEPT ![p] = [me EXCEPT !.pc = "done", !.ret = "none"]]
    ELSE IF Candidates(TicketTenant(t), TicketCategory(t)) = {}
    THEN proc' = [proc EXCEPT ![p] = [me EXCEPT !.pc = "done", !.ret = "none"]]
    ELSE \E u \in BestCandidates(TicketTenant(t), TicketCategory(t)) :
            proc' = [proc EXCEPT ![p] = [me EXCEPT !.pc = "commit", !.u = u]]

\* auto_assign_ticket from the ledger row to db.commit()
AutoAssignCommit(p) ==
    /\ proc[p].pc = "commit"
    /\ LET me == proc[p] IN
       IF EnumValue("AUTO_ASSIGNED") = "AttributeError" \/ ~TicketFound(me.t)
       THEN /\ proc' = Done(p, "raised")
            /\ UNCHANGED <<ledger, tstatus, nextId>>
       ELSE /\ ledger' = ledger \cup
                    {NewRow(nextId, me.t, me.u, me.by, EnumValue("AUTO_ASSIGNED"))}
            /\ tstatus' = [tstatus EXCEPT ![me.t] = "assigned"]
            /\ nextId' = nextId + 1
            /\ proc' = [proc EXCEPT ![p].pc = "notify"]
    /\ UNCHANGED <<configuration, submitted, escalations, timers, events, notifications, queue,
                   nExpired, redisFailed>>

\* auto_assign_ticket_endpoint
ApiAutoAssign(t) ==
    /\ proc["api"].pc = "idle"
    /\ nextId <= MaxRows
    /\ IF TicketInTenant(t, User[Admin].tenant_id)
       THEN auto_assign_read("api", t, Admin)
       ELSE proc' = [proc EXCEPT !["api"] =
                [Start("auto_assign", t, NoUser, Admin) EXCEPT !.pc = "done", !.ret = "404"]]
    /\ UNCHANGED <<configuration, submitted, tstatus, ledger, escalations, timers, events, notifications,
                   queue, nextId, nExpired, redisFailed>>

\* retry_unassigned_tickets: the query for the queued tickets
RetryScan ==
    /\ proc["retry"].pc = "idle"
    /\ nextId <= MaxRows
    /\ {t \in TicketIds : tstatus[t] = "queued"} # {}
    /\ queue' = ListOf({t \in TicketIds : tstatus[t] = "queued"})
    /\ proc' = [proc EXCEPT !["retry"] = [Idle EXCEPT !.pc = "loop"]]
    /\ UNCHANGED <<configuration, submitted, tstatus, ledger, escalations, timers, events, notifications,
                   nextId, nExpired, redisFailed>>

\* retry_unassigned_tickets: auto_assign_ticket for the next ticket of the list
RetryNext ==
    /\ proc["retry"].pc = "loop"
    /\ queue # <<>>
    /\ queue' = Tail(queue)
    /\ auto_assign_read("retry", Head(queue), NoUser)
    /\ UNCHANGED <<configuration, submitted, tstatus, ledger, escalations, timers, events, notifications,
                   nextId, nExpired, redisFailed>>

\* ------------------------------------------------------- status operations
\* update_tenant_ticket: update_ticket sets whatever status the admin sends
ApiUpdate(t, s) ==
    /\ proc["api"].pc = "idle"
    /\ LET me == Start("update", t, NoUser, Admin) IN
       IF TicketInTenant(t, User[Admin].tenant_id)
       THEN /\ tstatus' = [tstatus EXCEPT ![t] = s]
            /\ proc' = [proc EXCEPT !["api"] =
                    IF s \in StopTimerStatuses
                    THEN [me EXCEPT !.pc = "stop"]
                    ELSE [me EXCEPT !.pc = "done", !.ret = "ok"]]
       ELSE /\ proc' = [proc EXCEPT !["api"] = [me EXCEPT !.pc = "done", !.ret = "404"]]
            /\ UNCHANGED tstatus
    /\ UNCHANGED <<configuration, submitted, ledger, escalations, timers, events, notifications, queue,
                   nextId, nExpired, redisFailed>>

\* submit_ticket_for_completion: the submission row, status 'processed', then
\* stop_sla_timer.  The row and the status are committed one after the other;
\* no other handler reads the submission rows, so the two commits are one step.
ApiSubmit(t) ==
    /\ proc["api"].pc = "idle"
    /\ LET me == Start("submit", t, NoUser, NoUser) IN
       IF TicketInTenant(t, User[Admin].tenant_id)
       THEN /\ submitted' = submitted \cup {t}
            /\ tstatus' = [tstatus EXCEPT ![t] = "processed"]
            /\ proc' = [proc EXCEPT !["api"] =
                    [create_ticket_submission(me, "employee_submission")
                        EXCEPT !.pc = "stop"]]
       ELSE /\ proc' = [proc EXCEPT !["api"] = [me EXCEPT !.pc = "done", !.ret = "404"]]
            /\ UNCHANGED <<tstatus, submitted>>
    /\ UNCHANGED <<configuration, ledger, escalations, timers, events, notifications, queue,
                   nextId, nExpired, redisFailed>>

\* submit_and_resolve_ticket, by an admin: both submission rows, status
\* 'done', then stop_sla_timer
ApiResolve(t) ==
    /\ proc["api"].pc = "idle"
    /\ LET me == Start("resolve", t, NoUser, Admin) IN
       IF TicketInTenant(t, User[Admin].tenant_id)
       THEN /\ submitted' = submitted \cup {t}
            /\ tstatus' = [tstatus EXCEPT ![t] = "done"]
            /\ proc' = [proc EXCEPT !["api"] =
                    [create_ticket_submission(
                        create_ticket_submission(me, "employee_submission"),
                        "manager_approval") EXCEPT !.pc = "stop"]]
       ELSE /\ proc' = [proc EXCEPT !["api"] = [me EXCEPT !.pc = "done", !.ret = "404"]]
            /\ UNCHANGED <<tstatus, submitted>>
    /\ UNCHANGED <<configuration, ledger, escalations, timers, events, notifications, queue,
                   nextId, nExpired, redisFailed>>

\* _get_direct_report_ids
DirectReports(m) == {u \in UserIds : User[u].manager_id = m}

\* a list of approvable statuses that also holds 'assigned'
ApprovableStatuses_assigned == {"processed", "assigned"}

\* approve_ticket: the statuses from which a ticket can be approved
ApprovableStatuses == {"processed"}

\* approve_ticket, by a manager or an admin of the tenant
ApiApprove(t, approver) ==
    /\ proc["api"].pc = "idle"
    /\ User[approver].role \in {"manager", "admin"}
    /\ LET me == Start("approve", t, NoUser, approver) IN
       IF ~TicketInTenant(t, User[approver].tenant_id)
       THEN /\ proc' = [proc EXCEPT !["api"] = [me EXCEPT !.pc = "done", !.ret = "404"]]
            /\ UNCHANGED <<tstatus, submitted>>
       ELSE IF tstatus[t] \notin ApprovableStatuses \/ CurrentRows(t) = {}
       THEN /\ proc' = [proc EXCEPT !["api"] = [me EXCEPT !.pc = "done", !.ret = "400"]]
            /\ UNCHANGED <<tstatus, submitted>>
       ELSE \E r \in CurrentRows(t) :
            IF User[approver].role # "admin"
               /\ r.assigned_to_user_id \notin DirectReports(approver)
            THEN /\ proc' = [proc EXCEPT !["api"] = [me EXCEPT !.pc = "done", !.ret = "403"]]
                 /\ UNCHANGED <<tstatus, submitted>>
            ELSE /\ submitted' = submitted \cup {t}
                 /\ tstatus' = [tstatus EXCEPT ![t] = "done"]
                 /\ proc' = [proc EXCEPT !["api"] =
                        [create_ticket_submission(me, "manager_approval")
                            EXCEPT !.pc = "done", !.ret = "ok"]]
    /\ UNCHANGED <<configuration, ledger, escalations, timers, events, notifications, queue,
                   nextId, nExpired, redisFailed>>

\* the rows of a bag that do not belong to ticket t
WithoutTicket(B, t) ==
    [n \in {x \in DOMAIN B : x.ticket_id # t} |-> B[n]]

\* delete_tenant_ticket: the ticket's ledger, escalation and notification rows
\* go with it (cascade); a submission row of the ticket refuses the delete
\* (ticket_submissions.ticket_id has no ON DELETE rule); the ticket's Redis key
\* is not touched
ApiDelete(t) ==
    /\ proc["api"].pc = "idle"
    /\ LET me == Start("delete", t, NoUser, Admin) IN
       IF ~TicketInTenant(t, User[Admin].tenant_id)
       THEN /\ proc' = [proc EXCEPT !["api"] = [me EXCEPT !.pc = "done", !.ret = "404"]]
            /\ UNCHANGED <<tstatus, ledger, escalations, notifications>>
       ELSE IF t \in submitted
       THEN /\ proc' = [proc EXCEPT !["api"] = [me EXCEPT !.pc = "done", !.ret = "error"]]
            /\ UNCHANGED <<tstatus, ledger, escalations, notifications>>
       ELSE /\ tstatus' = [tstatus EXCEPT ![t] = "deleted"]
            /\ ledger' = {r \in ledger : r.ticket_id # t}
            /\ escalations' = {e \in escalations : e.ticket_id # t}
            /\ notifications' = WithoutTicket(notifications, t)
            /\ proc' = [proc EXCEPT !["api"] = [me EXCEPT !.pc = "done", !.ret = "ok"]]
    /\ UNCHANGED <<configuration, submitted, timers, events, queue, nextId, nExpired, redisFailed>>

\* ------------------------------------------------------ escalation listener
\* the Redis key of a ticket expires: the key is gone and the listener is told
Expire(t) ==
    /\ timers[t] # NoTimer
    /\ nExpired < MaxExpiries
    /\ timers' = [timers EXCEPT ![t] = NoTimer]
    /\ events' = Append(events, t)
    /\ nExpired' = nExpired + 1
    /\ UNCHANGED <<configuration, submitted, tstatus, ledger, escalations, notifications, proc, queue,
                   nextId, redisFailed>>

\* the admins and managers of the tenant, without the is_active filter
FinalRecipients_inactive(tenant) ==
    {a \in UserIds : /\ User[a].tenant_id = tenant
                     /\ User[a].role \in {"admin", "manager"}}

\* _notify_no_manager_escalation: the admins and managers who are told
FinalRecipients(tenant) ==
    {a \in UserIds : /\ User[a].tenant_id = tenant
                     /\ User[a].role \in {"admin", "manager"}
                     /\ User[a].is_active}

FinalNotifications(t, user) ==
    SetToBag({Notification(a, "system", t, user) : a \in FinalRecipients(TicketTenant(t))})

\* handle_sla_expiry up to the manager_id of the current assignee
SlaRead ==
    /\ proc["sla"].pc = "idle"
    /\ events # <<>>
    /\ events' = Tail(events)
    /\ LET t == Head(events)
           me == Start("escalate", t, NoUser, NoUser)
           ignore(why) == /\ proc' = [proc EXCEPT !["sla"] =
                                        [me EXCEPT !.pc = "done", !.ret = why]]
                          /\ UNCHANGED notifications
       IN IF ~TicketFound(t) THEN ignore("not_found")
          ELSE IF tstatus[t] \notin ESCALATABLE_STATUSES THEN ignore("not_escalatable")
          ELSE IF CurrentRows(t) = {} THEN ignore("no_assignment")
          ELSE \E r \in CurrentRows(t) :
               LET cu == r.assigned_to_user_id IN
               IF ~UserExists(cu) THEN ignore("user_not_found")
               ELSE IF User[cu].manager_id = NoUser
               THEN /\ notifications' = notifications (+) FinalNotifications(t, cu)
                    /\ proc' = [proc EXCEPT !["sla"] =
                            [me EXCEPT !.pc = "done", !.ret = "final", !.from = cu]]
               ELSE /\ proc' = [proc EXCEPT !["sla"] =
                            [me EXCEPT !.pc = "escalate", !.row = r.id, !.from = cu,
                                       !.u = User[cu].manager_id]]
                    /\ UNCHANGED notifications
    /\ UNCHANGED <<configuration, submitted, tstatus, ledger, escalations, timers, queue, nextId,
                   nExpired, redisFailed>>

Escalation(t, from, to, level) ==
    [ticket_id |-> t, escalated_from_user_id |-> from, escalated_to_user_id |-> to,
     escalation_level |-> level, reason |-> "SLA breach"]

\* handle_sla_expiry from the manager lookup to db.commit()
SlaCommit ==
    /\ proc["sla"].pc = "escalate"
    /\ LET me == proc["sla"] IN
       IF ~UserExists(me.u)
       THEN /\ proc' = Done("sla", "manager_not_found")
            /\ UNCHANGED <<ledger, escalations, tstatus, nextId>>
       ELSE IF EnumValue("AUTO_ESCALATED") = "AttributeError" \/ ~TicketFound(me.t)
       THEN \* the exception is caught and the session rolled back
            /\ proc' = Done("sla", "raised")
            /\ UNCHANGED <<ledger, escalations, tstatus, nextId>>
       ELSE /\ ledger' = {IF r.id = me.row THEN Closed(r) ELSE r : r \in ledger}
                         \cup {NewRow(nextId, me.t, me.u, NoUser,
                                      EnumValue("AUTO_ESCALATED"))}
            /\ escalations' = escalations \cup
                    {Escalation(me.t, me.from, me.u, NewLevel(me.t))}
            /\ tstatus' = [tstatus EXCEPT ![me.t] = "assigned"]
            /\ nextId' = nextId + 1
            /\ proc' = [proc EXCEPT !["sla"].pc = "notify"]
    /\ UNCHANGED <<configuration, submitted, timers, events, notifications, queue, nExpired, redisFailed>>

\* ------------------------------------------------------------ specification
ApiStep ==
    \/ \E t \in TicketIds, u \in UserIds : AssignBegin(t, u)
    \/ AssignClose
    \/ AssignCreate
    \/ \E t \in TicketIds : ApiAutoAssign(t)
    \/ \E t \in TicketIds, s \in TicketStatus : ApiUpdate(t, s)
    \/ \E t \in TicketIds : ApiSubmit(t)
    \/ \E t \in TicketIds : ApiResolve(t)
    \/ \E t \in TicketIds, a \in UserIds : ApiApprove(t, a)
    \/ \E t \in TicketIds : ApiDelete(t)

RetryStep == RetryScan \/ RetryNext

SlaStep == SlaRead \/ SlaCommit

Step(p) ==
    \/ p = "api" /\ ApiStep
    \/ p = "retry" /\ RetryStep
    \/ p = "sla" /\ SlaStep
    \/ p # "sla" /\ AutoAssignCommit(p)
    \/ Notify(p)
    \/ TimerStart(p)
    \/ p = "api" /\ StopTimer(p)
    \/ Return(p)

\* a timer runs out
Clock == \E t \in TicketIds : Expire(t)

\* the processes run concurrently and interleave between their commits, on
\* the tickets of Contended
Next ==
    \/ \E t \in Contended : CreateTicket(t)
    \/ Clock
    \/ \E p \in Procs : Step(p)

Spec == Init /\ [][Next]_vars

\* no other process is inside a handler
Quiet(p) == \A q \in Procs \ {p} : proc[q].pc = "idle"

\* the operations run one after the other, each to completion, on every ticket
NextSeq ==
    \/ \E t \in TicketIds : CreateTicket(t)
    \/ Clock
    \/ \E p \in Procs : Quiet(p) /\ Step(p)

SpecSeq == Init /\ [][NextSeq]_vars

\* the steps of the retry worker, which run_retry_worker repeats for ever
RetryWorker == RetryStep \/ AutoAssignCommit("retry") \/ Return("retry")

\* the retry worker next to an admin who creates, assigns and updates tickets
\* (and leaves the last ledger key of the bound to the worker)
NextLive ==
    \/ \E t \in TicketIds : CreateTicket(t)
    \/ \E t \in TicketIds, u \in UserIds : nextId < MaxRows /\ AssignBegin(t, u)
    \/ AssignClose
    \/ AssignCreate
    \/ Notify("api")
    \/ TimerStart("api")
    \/ \E t \in TicketIds, s \in TicketStatus : ApiUpdate(t, s)
    \/ StopTimer("api")
    \/ Return("api")
    \/ RetryWorker

\* the worker keeps running: it is never stopped for ever while it has a step
SpecLive == Init /\ [][NextLive]_vars /\ WF_vars(RetryWorker)

\* ------------------------------------------------- the timer store by itself
\* the SLA minutes of the direct calls
TimerMinutes == {1, 2, 3}

\* the value a call returns, as Python prints it
BoolStr(b) == IF b THEN "True" ELSE "False"

\* a direct call of start_sla_timer (as test_sla.py makes it); 'from' is what
\* get_sla_assigned_user returned just before
StartCall(t, u, minutes) ==
    /\ proc["api"].pc = "idle"
    /\ \E ok \in BOOLEAN :
        /\ timers' = start_sla_timer(t, u, minutes, ok)
        /\ redisFailed' = (redisFailed \/ ~ok)
        /\ proc' = [proc EXCEPT !["api"] =
                [Start("start", t, u, NoUser) EXCEPT
                    !.pc = "done", !.from = timers[t].user,
                    !.minutes = minutes, !.ret = BoolStr(ok)]]
    /\ UNCHANGED <<configuration, submitted, tstatus, ledger, escalations, events, notifications, queue,
                   nextId, nExpired>>

\* a direct call of stop_sla_timer
StopCall(t) ==
    /\ proc["api"].pc = "idle"
    /\ \E ok \in BOOLEAN :
        /\ timers' = stop_sla_timer(t, ok)
        /\ redisFailed' = (redisFailed \/ ~ok)
        /\ proc' = [proc EXCEPT !["api"] =
                [Start("stop", t, NoUser, NoUser) EXCEPT
                    !.pc = "done", !.from = timers[t].user,
                    !.ret = BoolStr(stop_sla_timer_result(t, ok))]]
    /\ UNCHANGED <<configuration, submitted, tstatus, ledger, escalations, events, notifications, queue,
                   nextId, nExpired>>

\* a minute passes for the key of a ticket: its TTL runs down, and the key
\* expires when the TTL has run out
Elapse(t) ==
    \/ /\ timers[t] # NoTimer
       /\ timers[t].ttl > 60
       /\ timers' = [timers EXCEPT ![t].ttl = @ - 60]
       /\ UNCHANGED <<configuration, submitted, tstatus, ledger, escalations, events,
                      notifications, proc, queue, nextId, nExpired, redisFailed>>
    \/ /\ timers[t].ttl <= 60
       /\ Expire(t)

NextTimer ==
    \/ \E t \in TicketIds : CreateTicket(t)
    \/ \E t \in TicketIds, u \in {"A", "B", "M"}, m \in TimerMinutes : StartCall(t, u, m)
    \/ \E t \in TicketIds : StopCall(t)
    \/ \E t \in TicketIds : Elapse(t)
    \/ Return("api")

\* the timer store under direct calls of start_sla_timer and stop_sla_timer
SpecTimer == Init /\ [][NextTimer]_vars

\* --------------------------------------------------- the SLA configuration
\* update_configuration / delete_configuration of the tenant's 'sla' row
SetConfiguration(tenant, value) ==
    /\ proc["api"].pc = "idle"
    /\ configuration' = [configuration EXCEPT ![tenant] = value]
    /\ UNCHANGED <<submitted, tstatus, ledger, escalations, timers, events, notifications,
                   proc, queue, nextId, nExpired, redisFailed>>

\* a call of get_tenant_sla_minutes for a tenant; its result is in 'minutes'
SlaLookup(tenant) ==
    /\ proc["api"].pc = "idle"
    /\ proc' = [proc EXCEPT !["api"] =
            [Start("sla", tenant, NoUser, NoUser) EXCEPT
                !.pc = "done", !.ret = "returned",
                !.minutes = get_tenant_sla_minutes(tenant)]]
    /\ UNCHANGED <<configuration, submitted, tstatus, ledger, escalations, timers, events,
                   notifications, queue, nextId, nExpired, redisFailed>>

NextConfig ==
    \/ \E tenant \in {1, 2}, v \in ConfigValues \cup {NoConfiguration} :
            SetConfiguration(tenant, v)
    \/ \E tenant \in {1, 2} : SlaLookup(tenant)
    \/ Return("api")

\* the SLA lookup next to an admin who edits the configuration rows
SpecConfig == Init /\ [][NextConfig]_vars

\* ------------------------------------------------------------------ claims
\* no process is inside a handler: every operation issued so far is complete
AllIdle == \A p \in Procs : proc[p].pc = "idle"

\* C1: after any sequence of completed operations, every ticket has at most
\* one ledger row with is_current = true.
C1_OneCurrentRow ==
    AllIdle => \A t \in TicketIds : Cardinality(CurrentRows(t)) <= 1

\* a ticket that was reassigned: two ledger rows, one closed and one current
C1_Witness ==
    /\ AllIdle
    /\ \E t \in TicketIds :
        /\ Cardinality({r \in ledger : r.ticket_id = t}) = 2
        /\ Cardinality(CurrentRows(t)) = 1
        /\ \E r \in ledger : r.ticket_id = t /\ ~r.is_current /\ r.completed

\* C2: with the escalation, the manual reassignment and auto_assign
\* interleaved between their reads and commits, a ticket never has two current
\* rows, an escalation that changes the ledger closes a row that is current
\* when it commits (otherwise it aborts), and a reassignment opens its new row
\* only when no other row of the ticket is current.
C2_NoDoubleWin ==
    [][/\ \A t \in TicketIds : Cardinality({r \in ledger' : r.ticket_id = t /\ r.is_current}) <= 1
       /\ (proc["sla"].pc = "escalate" /\ ledger' # ledger /\ proc'["sla"].pc # "escalate")
            => \E r \in CurrentRows(proc["sla"].t) : r.id = proc["sla"].row
       /\ (proc["api"].pc = "create" /\ ledger' # ledger /\ proc'["api"].pc # "create")
            => CurrentRows(proc["api"].t) = {}]_vars

\* the escalation read a row, a manual reassignment then closed it and opened
\* a newer one, and the escalation has ended without touching the newer row
C2_Witness ==
    /\ proc["sla"].pc = "done"
    /\ proc["sla"].ret = "raised"
    /\ \E r \in ledger : r.id = proc["sla"].row /\ ~r.is_current
    /\ \E r \in CurrentRows(proc["sla"].t) : r.id > proc["sla"].row

C5_AutoAssignNoOp ==
    [][\A p \in {"api", "retry"} :
        (/\ proc[p].pc \in {"idle", "loop"}
         /\ proc'[p].pc \notin {"idle", "loop"}
         /\ proc'[p].op = "auto_assign"
         /\ tstatus[proc'[p].t] # "queued")
        => /\ proc'[p].pc = "done"
           /\ proc'[p].ret = IF p = "api" /\ tstatus[proc'[p].t] \notin TicketStatus
                             THEN "404" ELSE "none"
           /\ UNCHANGED <<tstatus, ledger, escalations, timers, notifications, submitted,
                       nextId>>]_vars

\* the admin asked for the auto-assignment of a ticket that is already owned
\* and in progress, and was answered that no assignment was made
C5_Witness ==
    /\ proc["api"].pc = "done"
    /\ proc["api"].op = "auto_assign"
    /\ proc["api"].ret = "none"
    /\ tstatus[proc["api"].t] = "in-progress"
    /\ CurrentRows(proc["api"].t) # {}
    /\ timers[proc["api"].t] # NoTimer

C7_EscalatesToManager ==
    [][LET me == proc["sla"] IN
        (/\ me.pc = "escalate"
         /\ proc'["sla"].pc # "escalate"
         /\ UserExists(me.u)
         /\ tstatus[me.t] \in {"assigned", "in-progress"}
         /\ \E r \in CurrentRows(me.t) : r.id = me.row /\ r.assigned_to_user_id = me.from)
        => /\ \E r \in ledger' : r.id = me.row /\ ~r.is_current /\ r.completed
           /\ \E n \in ledger' \ ledger :
                /\ n.assigned_to_user_id = me.u
                /\ n.assignment_type = "auto_escalated"
                /\ {r \in ledger' : r.ticket_id = me.t /\ r.is_current} = {n}
           /\ \E e \in escalations' :
                /\ escalations' \ escalations = {e}
                /\ e.ticket_id = me.t
                /\ e.escalated_from_user_id = me.from
                /\ e.escalated_to_user_id = me.u
                /\ e.reason = "SLA breach"]_vars

\* C8: an expiry event for a ticket that does not exist, whose status is not
\* assigned or in-progress, or that has no current ledger row is ignored: the
\* handler returns without changing a ledger row, an escalation row, a status,
\* a timer or a notification.
C8_StaleExpiryIgnored ==
    [][(/\ proc["sla"].pc = "idle"
        /\ proc'["sla"].pc # "idle"
        /\ events # <<>>
        /\ \/ tstatus[Head(events)] \notin {"assigned", "in-progress"}
           \/ CurrentRows(Head(events)) = {})
       => /\ proc'["sla"].pc = "done"
          /\ proc'["sla"].ret = (IF tstatus[Head(events)] \notin TicketStatus THEN "not_found"
                                 ELSE IF tstatus[Head(events)] \notin {"assigned", "in-progress"}
                                 THEN "not_escalatable" ELSE "no_assignment")
          /\ UNCHANGED <<tstatus, ledger, escalations, timers, notifications, submitted,
                       nextId>>]_vars

\* the timer of a ticket ran out while a reassignment had closed the old row
\* and not yet opened the new one: the event was ignored
C8_Witness ==
    /\ proc["sla"].pc = "done"
    /\ proc["sla"].ret = "no_assignment"
    /\ tstatus[proc["sla"].t] \in {"assigned", "in-progress"}

\* C9: an expiry for a ticket whose current assignee has no manager changes
\* no ledger row, escalation row, status or timer, and adds exactly one
\* 'system' notification about the ticket and the assignee for every active
\* admin and manager of the ticket's tenant, and no other notification.
C9_FinalEscalationNotice ==
    [][(/\ proc["sla"].pc = "idle"
        /\ proc'["sla"].pc # "idle"
        /\ events # <<>>
        /\ tstatus[Head(events)] \in {"assigned", "in-progress"}
        /\ CurrentRows(Head(events)) # {}
        /\ \A r \in CurrentRows(Head(events)) :
                User[r.assigned_to_user_id].manager_id = NoUser)
       => LET t == Head(events)
              told == {a \in UserIds : /\ User[a].tenant_id = TicketTenant(t)
                                       /\ User[a].role \in {"admin", "manager"}
                                       /\ User[a].is_active}
          IN /\ proc'["sla"].pc = "done"
             /\ UNCHANGED <<tstatus, ledger, escalations, timers, nextId>>
             /\ \E r \in CurrentRows(t) :
                    \A a \in told :
                        CopiesIn(Notification(a, "system", t, r.assigned_to_user_id),
                                 notifications')
                        = CopiesIn(Notification(a, "system", t, r.assigned_to_user_id),
                                   notifications) + 1
             /\ BagCardinality(notifications')
                    = BagCardinality(notifications) + Cardinality(told)]_vars

\* B, who has no manager, still owns the ticket after the expiry; the manager
\* and the active admin of the tenant have been told, the retired admin not
C9_Witness ==
    /\ proc["sla"].pc = "done"
    /\ proc["sla"].ret = "final"
    /\ LET t == proc["sla"].t IN
        /\ CurrentOwners(t) = {"B"}
        /\ timers[t] = NoTimer
        /\ BagIn(Notification("M", "system", t, "B"), notifications)
        /\ BagIn(Notification("Ad", "system", t, "B"), notifications)
        /\ ~BagIn(Notification("Old", "system", t, "B"), notifications)

C11_AutoAssignAssigns ==
    [][\A p \in {"api", "retry"} :
        LET me == proc[p] IN
        /\ (/\ me.pc = "commit"
            /\ proc'[p].pc # "commit"
            /\ tstatus[me.t] = "queued")
           => /\ tstatus'[me.t] = "assigned"
              /\ \E n \in ledger' :
                    /\ ledger' \ ledger = {n}
                    /\ n.ticket_id = me.t
                    /\ n.is_current
                    /\ n.assigned_to_user_id = me.u
                    /\ n.assignment_type = "auto_assigned"
        /\ (/\ me.pc = "timer"
            /\ me.op = "auto_assign"
            /\ proc'[p].pc # "timer"
            /\ ~redisFailed')
           => timers'[me.t] =
                [user |-> me.u,
                 ttl |-> get_tenant_sla_minutes(TicketTenant(me.t)) * 60]]_vars

C14_ReassignAtomic ==
    [][\A t \in TicketIds :
        (CurrentRows(t) # {} /\ tstatus'[t] \in TicketStatus)
        => {r \in ledger' : r.ticket_id = t /\ r.is_current} # {}]_vars

\* C15: a manual assignment to an employee of the tenant is accepted whatever
\* the ticket's status and whatever the employee's load, capacity, category and
\* accepting flag; its commit leaves the ticket assigned with exactly one
\* current row, which belongs to the new assignee.
C15_ManualAssignUnconditional ==
    [][LET me == proc["api"]
           now == proc'["api"]
       IN /\ (/\ me.pc = "idle"
              /\ now.pc # "idle"
              /\ now.op = "assign"
              /\ tstatus[now.t] \in TicketStatus
              /\ now.u \in UserIds
              /\ User[now.u].tenant_id = User[Admin].tenant_id
              /\ User[now.u].role = "user")
             => now.pc = "close"
          /\ (me.pc = "create" /\ now.pc # "create")
             => /\ tstatus'[me.t] = "assigned"
                /\ \E n \in ledger' \ ledger :
                    /\ n.assigned_to_user_id = me.u
                    /\ n.assignment_type = "assigned"
                    /\ {r \in ledger' : r.ticket_id = me.t /\ r.is_current} = {n}
          /\ (me.pc # "done" /\ now.pc = "done" /\ now.op = "assign" /\ now.ret = "ok")
             => {r.assigned_to_user_id :
                    r \in {x \in ledger' : x.ticket_id = now.t /\ x.is_current}} = {now.u}]_vars

\* the admin has assigned a second ticket to A, whose capacity is 1: A now
\* owns both tickets
C15_Witness ==
    /\ proc["api"].pc = "done"
    /\ proc["api"].op = "assign"
    /\ proc["api"].ret = "ok"
    /\ proc["api"].u = "A"
    /\ CurrentOwners(proc["api"].t) = {"A"}
    /\ ActiveLoad("A") = 2
    /\ User["A"].capacity = 1

\* C16: in a cycle of the retry worker an exception raised for one queued
\* ticket changes nothing that was committed and does not end the cycle: the
\* worker goes on with its list, and auto_assign is started for each ticket
\* that remains on it, in order.
C16_CycleSurvivesException ==
    [][LET me == proc["retry"]
           now == proc'["retry"]
       IN /\ (me.pc = "commit" /\ now.pc = "done" /\ now.ret = "raised")
             => UNCHANGED <<tstatus, ledger, escalations, timers, notifications,
                            submitted, nextId, queue>>
          /\ (me.pc = "done" /\ me.ret = "raised" /\ now # me /\ queue # <<>>)
             => /\ now.pc = "loop"
                /\ UNCHANGED <<tstatus, ledger, escalations, timers, notifications,
                               submitted, nextId, queue>>
          /\ (me.pc = "loop" /\ now # me /\ queue # <<>>)
             => /\ now.op = "auto_assign"
                /\ now.t = Head(queue)
                /\ queue' = Tail(queue)]_vars

\* auto_assign has raised for the first of two queued tickets; the second is
\* still on the worker's list, and both are still queued
C16_Witness ==
    /\ proc["retry"].pc = "done"
    /\ proc["retry"].ret = "raised"
    /\ proc["retry"].t = 1
    /\ queue = <<2>>
    /\ tstatus[1] = "queued"
    /\ tstatus[2] = "queued"

\* C17: a queued ticket for which an eligible agent is under capacity does
\* not stay queued for ever while the retry worker keeps running: a later
\* cycle assigns it (unless it leaves the queue or the agent's room is lost
\* before).
C17_QueuedEventuallyAssigned ==
    \A t \in TicketIds :
        (tstatus[t] = "queued" /\ Candidates(TicketTenant(t), TicketCategory(t)) # {})
        ~> (tstatus[t] # "queued" \/ Candidates(TicketTenant(t), TicketCategory(t)) = {})

\* C18: a submission for completion of a ticket in status assigned or
\* in-progress sets the status to processed and adds exactly one submission
\* row, of type employee_submission; when the request has ended, with the timer
\* store reachable, the ticket has no SLA timer.
C18_SubmitProcessed ==
    [][LET me == proc["api"]
           now == proc'["api"]
       IN /\ (/\ me.pc = "idle"
              /\ now.pc # "idle"
              /\ now.op = "submit"
              /\ tstatus[now.t] \in {"assigned", "in-progress"})
             => /\ tstatus'[now.t] = "processed"
                /\ now.subs = <<"employee_submission">>
                /\ now.t \in submitted'
                /\ now.pc = "stop"
          /\ (me.pc = "stop" /\ me.op = "submit" /\ now.pc # "stop")
             => /\ now.pc = "done"
                /\ now.subs = me.subs
                /\ tstatus'[me.t] = "processed"
                /\ ~redisFailed' => timers'[me.t] = NoTimer]_vars

\* the employee's submission of an owned ticket has ended: the ticket is
\* processed, one employee_submission row was written and its timer is gone
C18_Witness ==
    /\ proc["api"].pc = "done"
    /\ proc["api"].op = "submit"
    /\ proc["api"].subs = <<"employee_submission">>
    /\ tstatus[proc["api"].t] = "processed"
    /\ CurrentRows(proc["api"].t) # {}
    /\ timers[proc["api"].t] = NoTimer
    /\ nExpired = 0
    /\ ~redisFailed

\* C19: the admin's direct resolve of a ticket in status queued, assigned,
\* in-progress or processed sets the status to done in one commit, adds exactly
\* two submission rows, one employee_submission and one manager_approval; when
\* the request has ended, with the timer store reachable, the ticket has no SLA
\* timer.
C19_ResolveDone ==
    [][LET me == proc["api"]
           now == proc'["api"]
       IN /\ (/\ me.pc = "idle"
              /\ now.pc # "idle"
              /\ now.op = "resolve"
              /\ tstatus[now.t] \in {"queued", "assigned", "in-progress", "processed"})
             => /\ tstatus'[now.t] = "done"
                /\ now.subs = <<"employee_submission", "manager_approval">>
                /\ now.t \in submitted'
                /\ now.pc = "stop"
          /\ (me.pc = "stop" /\ me.op = "resolve" /\ now.pc # "stop")
             => /\ now.pc = "done"
                /\ now.subs = me.subs
                /\ tstatus'[me.t] = "done"
                /\ ~redisFailed' => timers'[me.t] = NoTimer]_vars

\* the admin's direct resolve of an owned ticket has ended: the ticket is done,
\* both submission rows were written and its timer is gone
C19_Witness ==
    /\ proc["api"].pc = "done"
    /\ proc["api"].op = "resolve"
    /\ proc["api"].subs = <<"employee_submission", "manager_approval">>
    /\ tstatus[proc["api"].t] = "done"
    /\ CurrentRows(proc["api"].t) # {}
    /\ timers[proc["api"].t] = NoTimer
    /\ nExpired = 0
    /\ ~redisFailed

\* C20: a ticket's status only moves forward along queued, assigned,
\* in-progress, processed, done (incomplete being the other final status): a
\* step that moves a ticket to an earlier status is a step of the admin's
\* status update, of the admin's manual assignment or of the escalation;
\* submit, approve, auto_assign and the retry worker never take one.
C20_StatusMonotonic ==
    [][LET rank == [s \in TicketStatus |->
                        CASE s = "queued" -> 0
                          [] s = "assigned" -> 1
                          [] s = "in-progress" -> 2
                          [] s = "processed" -> 3
                          [] OTHER -> 4]
       IN \A t \in TicketIds :
            (/\ tstatus[t] \in TicketStatus
             /\ tstatus'[t] \in TicketStatus
             /\ rank[tstatus'[t]] < rank[tstatus[t]])
            => \/ /\ proc'["api"] # proc["api"]
                  /\ proc'["api"].op \in {"update", "assign"}
               \/ /\ proc["sla"].pc = "escalate"
                  /\ proc'["sla"].pc # "escalate"]_vars

C22_RestartReplacesTimer ==
    [][LET me == proc["api"]
           now == proc'["api"]
       IN /\ (/\ me.pc = "idle"
              /\ now.op = "start"
              /\ now.ret = "True"
              /\ timers[now.t] # NoTimer)
             => /\ timers'[now.t] = [user |-> now.u, ttl |-> now.minutes * 60]
                /\ \A o \in TicketIds \ {now.t} : timers'[o] = timers[o]
                /\ UNCHANGED <<events, nExpired>>
          /\ events' # events
             => \E t \in TicketIds :
                    /\ timers[t] # NoTimer
                    /\ timers'[t] = NoTimer
                    /\ events' = Append(events, t)]_vars

\* the key of a ticket was held for A and a second start, for B with 3
\* minutes, has replaced it: B with the full 180 seconds, no expiry event, and
\* the key of ticket 2 is as it was
C22_Witness ==
    /\ proc["api"].pc = "done"
    /\ proc["api"].op = "start"
    /\ proc["api"].ret = "True"
    /\ proc["api"].from = "A"
    /\ proc["api"].u = "B"
    /\ timers[proc["api"].t] = [user |-> "B", ttl |-> 180]
    /\ timers[2] = [user |-> "A", ttl |-> 60]
    /\ events = <<>>

\* C23: a stop for a ticket without a timer returns false and changes
\* nothing (timers of other tickets, ledger rows, statuses); a stop for a
\* ticket with a timer, the timer store reachable, removes that timer only and
\* returns true.
C23_StopReportsDeletion ==
    [][LET me == proc["api"]
           now == proc'["api"]
       IN (me.pc = "idle" /\ now.op = "stop")
          => /\ UNCHANGED <<tstatus, ledger, escalations, events, notifications>>
             /\ \A o \in TicketIds \ {now.t} : timers'[o] = timers[o]
             /\ timers[now.t] = NoTimer
                    => (now.ret = "False" /\ timers' = timers)
             /\ (timers[now.t] # NoTimer /\ ~redisFailed')
                    => (now.ret = "True" /\ timers'[now.t] = NoTimer)]_vars

\* a stop has removed the timer of one ticket and returned true; the timer of
\* the other ticket is still there
C23_Witness ==
    /\ proc["api"].pc = "done"
    /\ proc["api"].op = "stop"
    /\ proc["api"].ret = "True"
    /\ proc["api"].from # NoUser
    /\ timers[proc["api"].t] = NoTimer
    /\ \E o \in TicketIds : timers[o] # NoTimer
    /\ ~redisFailed

\* C24: while a ticket stays in assigned or in-progress, each SLA expiry moves
\* its ownership exactly one level up the manager chain: after the expiry the
\* only owner is the manager of the owner before; for an owner without manager
\* the expiry gives the final-escalation notice and the ownership stays.
C24_EscalatesUpTheChain ==
    [][LET me == proc["sla"]
           now == proc'["sla"]
       IN /\ (/\ me.pc = "escalate"
              /\ now.pc # "escalate"
              /\ UserExists(me.u)
              /\ tstatus[me.t] \in {"assigned", "in-progress"}
              /\ CurrentOwners(me.t) = {me.from})
             => {r.assigned_to_user_id :
                    r \in {x \in ledger' : x.ticket_id = me.t /\ x.is_current}}
                = {User[me.from].manager_id}
          /\ (me.pc = "idle" /\ now.pc = "done" /\ now.ret = "final")
             => UNCHANGED <<ledger, escalations, tstatus>>]_vars

C28_TimerFollowsOwner ==
    [][\A p \in Procs :
        LET me == proc[p]
        IN (/\ me.pc = "timer"
            /\ proc'[p].pc # "timer"
            /\ ~redisFailed')
           => /\ proc'[p].pc = "done"
              /\ timers'[me.t] =
                    [user |-> me.u,
                     ttl |-> sla_minutes(configuration[TicketTenant(me.t)]) * 60]
              /\ CurrentOwners(me.t) = {me.u}]_vars

\* the admin has reassigned a ticket from A to B: the timer of the ticket is
\* B's, with the two minutes of the tenant
C28_Witness ==
    /\ proc["api"].pc = "done"
    /\ proc["api"].op = "assign"
    /\ proc["api"].u = "B"
    /\ \E r \in ledger :
        r.ticket_id = proc["api"].t /\ ~r.is_current /\ r.assigned_to_user_id = "A"
    /\ CurrentOwners(proc["api"].t) = {"B"}
    /\ timers[proc["api"].t] = [user |-> "B", ttl |-> 120]
    /\ ~redisFailed

\* C29: when an operation has moved a ticket's status out of assigned or
\* in-progress (submit to processed, direct resolve to done, admin update to
\* processed, done, incomplete or queued), the ticket has no SLA timer once
\* the operation has ended, the timer store being reachable.
C29_LeavingActiveStopsTimer ==
    [][LET me == proc["api"]
           now == proc'["api"]
       IN /\ (/\ me.pc = "idle"
              /\ now.pc = "done"
              /\ now.op \in {"update", "submit", "resolve"}
              /\ tstatus[now.t] \in {"assigned", "in-progress"}
              /\ tstatus'[now.t] \notin {"assigned", "in-progress"})
             => timers'[now.t] = NoTimer
          /\ (/\ me.pc = "stop"
              /\ now.pc = "done"
              /\ me.op \in {"update", "submit", "resolve"}
              /\ ~redisFailed')
             => timers'[me.t] = NoTimer]_vars

\* The value of get_tenant_sla_minutes for a configuration value, written out
\* case by case from Python's int(): surrounding blanks are ignored, a sign is
\* accepted, zero and negative numbers are returned as they are; a missing
\* row, an empty text, a word and a decimal fraction give the default.
C30_Expected(value) ==
    CASE value = "2" -> 2
      [] value = "5" -> 5
      [] value = " 5 " -> 5
      [] value = "0" -> 0
      [] value = "-1" -> 0 - 1
      [] OTHER -> SLA_DEFAULT_MINUTES

\* C30: the SLA lookup of a tenant returns the configured 'sla' value as an
\* integer when the row is present and its text parses, the system default
\* when the row is missing, empty or malformed, and it always returns.
C30_SlaLookupTotal ==
    /\ \A tenant \in DOMAIN configuration :
           get_tenant_sla_minutes(tenant) = C30_Expected(configuration[tenant])
    /\ proc["api"].op = "sla"
           => /\ proc["api"].pc = "done"
              /\ proc["api"].ret = "returned"
              /\ proc["api"].minutes \in Int
              /\ proc["api"].minutes = C30_Expected(configuration[proc["api"].t])

\* C30 witness: with the row of tenant 1 holding a word and the row of
\* tenant 2 missing, the lookup of tenant 1 has returned the default.
C30_Witness ==
    /\ proc["api"].op = "sla"
    /\ proc["api"].pc = "done"
    /\ proc["api"].t = 1
    /\ configuration[1] = "soon"
    /\ configuration[2] = NoConfiguration
    /\ proc["api"].minutes = SLA_DEFAULT_MINUTES
    /\ proc["api"].ret = "returned"

\* C30 second witness: a row holding " 5 " is parsed to 5, which is not the
\* default.
C30_WitnessParsed ==
    /\ proc["api"].op = "sla"
    /\ proc["api"].pc = "done"
    /\ configuration[proc["api"].t] = " 5 "
    /\ proc["api"].minutes = 5

\* the operations that change the owner of a ticket
C32_OwnershipOps == {"assign", "auto_assign", "escalate"}

\* C32: every step of an ownership-changing operation on one ticket (manual
\* assignment, auto_assign from the endpoint or the retry worker, escalation)
\* leaves the status, the ledger rows, the escalation rows and the SLA timer
\* of every other ticket unchanged.
C32_OtherTicketsUntouched ==
    [][\A p \in Procs :
        LET me == IF proc[p].op = "none" THEN proc'[p] ELSE proc[p]
        IN (proc'[p] # proc[p] /\ me.op \in C32_OwnershipOps)
           => \A o \in TicketIds \ {me.t} :
                /\ tstatus'[o] = tstatus[o]
                /\ {r \in ledger' : r.ticket_id = o} = {r \in ledger : r.ticket_id = o}
                /\ {e \in escalations' : e.ticket_id = o}
                        = {e \in escalations : e.ticket_id = o}
                /\ timers'[o] = timers[o]]_vars

\* C32 witness: ticket 1 has just been assigned to B while ticket 2 is in
\* progress in A's hands with A's timer running.
C32_Witness ==
    /\ proc["api"].op = "assign"
    /\ proc["api"].pc = "done"
    /\ proc["api"].ret = "ok"
    /\ proc["api"].t = 1
    /\ CurrentOwners(1) = {"B"}
    /\ timers[1].user = "B"
    /\ tstatus[2] = "in-progress"
    /\ CurrentOwners(2) = {"A"}
    /\ timers[2].user = "A"

\* C33: a manual assignment records its ledger row with type 'assigned' when
\* the ticket had no manual assignment before, and with type 'reassigned'
\* when it had one.
C33_ReassignedType ==
    [][LET me == proc["api"]
           before == {r \in ledger : /\ r.ticket_id = me.t
                                     /\ r.assigned_by_user_id # NoUser
                                     /\ r.assignment_type \in {"assigned", "reassigned"}}
       IN (me.op = "assign" /\ me.pc = "create" /\ proc'["api"].pc = "notify")
          => \E r \in ledger' \ ledger :
                /\ ledger' = ledger \cup {r}
                /\ r.assigned_to_user_id = me.u
                /\ (before = {} => r.assignment_type = "assigned")
                /\ (/\ before # {}
                    /\ \A b \in before : b.assigned_to_user_id # me.u)
                   => r.assignment_type = "reassigned"]_vars

\* C34: approval moves a ticket to done only from status processed and only
\* when the ticket has a current ledger row; any other request for approval
\* is rejected and changes nothing; a successful approval adds one
\* manager_approval submission row and leaves the ledger and the SLA timer
\* as they are.
C34_ApproveOnlyProcessed ==
    [][LET now == proc'["api"]
           t == now.t
           accepted == /\ TicketFound(t)
                       /\ tstatus[t] = "processed"
                       /\ CurrentRows(t) # {}
                       /\ \/ User[now.by].role = "admin"
                          \/ CurrentOwners(t) \subseteq DirectReports(now.by)
       IN (proc["api"].pc = "idle" /\ now.op = "approve")
          => /\ now.pc = "done"
             /\ UNCHANGED <<ledger, timers, escalations, notifications, events>>
             /\ IF accepted
                THEN /\ now.ret = "ok"
                     /\ tstatus' = [tstatus EXCEPT ![t] = "done"]
                     /\ now.subs = <<"manager_approval">>
                     /\ submitted' = submitted \cup {t}
                ELSE /\ now.ret \in {"400", "403", "404"}
                     /\ now.subs = <<>>
                     /\ UNCHANGED <<tstatus, submitted>>
             /\ (tstatus[t] # "processed" \/ CurrentRows(t) = {})
                    => now.ret \in {"400", "404"}]_vars

\* C34 witness: manager M has approved ticket 1, which her report A had
\* submitted; A's row is still the current row.
C34_Witness ==
    /\ proc["api"].op = "approve"
    /\ proc["api"].pc = "done"
    /\ proc["api"].ret = "ok"
    /\ proc["api"].by = "M"
    /\ proc["api"].subs = <<"manager_approval">>
    /\ tstatus[proc["api"].t] = "done"
    /\ CurrentOwners(proc["api"].t) = {"A"}
    /\ proc["api"].t \in submitted

C37_StatusMatchesLedger ==
    \A t \in TicketIds :
        /\ tstatus[t] \in {"assigned", "in-progress"}
                => Cardinality(CurrentRows(t)) = 1
        /\ tstatus[t] = "queued" => CurrentRows(t) = {}

\* C38: employee submit, approve and admin direct-resolve leave the ledger
\* unchanged (the current row of the ticket stays current and open), and the
\* active load of a user drops, by the rows he holds on the ticket, exactly
\* when the ticket's status leaves assigned, in-progress and queued.
C38_CompletionKeepsLedger ==
    [][LET me == IF proc["api"].pc = "idle" THEN proc'["api"] ELSE proc["api"]
           t == me.t
           active == {"assigned", "in-progress", "queued"}
           left == tstatus[t] \in active /\ tstatus'[t] \notin active
       IN (proc'["api"] # proc["api"] /\ me.op \in {"submit", "approve", "resolve"})
          => /\ ledger' = ledger
             /\ \A u \in UserIds :
                    ActiveLoad(u)' = ActiveLoad(u) -
                        (IF left
                         THEN Cardinality({r \in CurrentRows(t) :
                                            r.assigned_to_user_id = u})
                         ELSE 0)]_vars

\* C38 witness: B's ticket has been submitted; it is processed, B's row is
\* still current and open, and B's active load is 0.
C38_Witness ==
    /\ proc["api"].op = "submit"
    /\ proc["api"].pc = "done"
    /\ tstatus[proc["api"].t] = "processed"
    /\ \E r \in CurrentRows(proc["api"].t) :
            /\ r.assigned_to_user_id = "B"
            /\ r.is_current
            /\ ~r.completed
    /\ ActiveLoad("B") = 0

\* C39: a manual assignment is accepted whatever the status of the ticket,
\* its commit leaves the ticket in status assigned, and when it has completed
\* (the timer store being reachable) the ticket is assigned, owned by the new
\* assignee and has an SLA timer running for him: a processed, done or
\* incomplete ticket is open and escalatable again.
C39_ManualAssignReopens ==
    [][LET me == proc["api"]
           now == proc'["api"]
       IN /\ (/\ me.pc = "idle"
              /\ now.op = "assign"
              /\ TicketFound(now.t)
              /\ EmployeeOfTenant(now.u, User[Admin].tenant_id))
             => now.pc = "close"
          /\ (me.op = "assign" /\ me.pc = "create" /\ now.pc = "notify")
             => tstatus'[me.t] = "assigned"
          /\ (/\ me.op = "assign"
              /\ me.pc = "timer"
              /\ now.pc = "done"
              /\ ~redisFailed'
              /\ TicketFound(me.t))
             => /\ tstatus'[me.t] = "assigned"
                /\ tstatus'[me.t] \in ESCALATABLE_STATUSES
                /\ CurrentOwners(me.t) = {me.u}
                /\ timers'[me.t].user = me.u
                /\ timers'[me.t].ttl > 0]_vars

\* C39 witness: ticket 1 has submission rows, so it had been processed or
\* done; the admin has now assigned it to B, and it is assigned with B's timer
\* running.
C39_Witness ==
    /\ proc["api"].op = "assign"
    /\ proc["api"].pc = "done"
    /\ proc["api"].ret = "ok"
    /\ proc["api"].t = 1
    /\ 1 \in submitted
    /\ tstatus[1] = "assigned"
    /\ CurrentOwners(1) = {"B"}
    /\ timers[1].user = "B"
    /\ timers[1].ttl > 0
====
